---------------------------- MODULE Spec2Model ----------------------------
(* doc-proofreader: the chunking and dispatch pipeline of                  *)
(* src/doc_proofreader/proofread_document.py (report mode) and             *)
(* src/doc_proofreader/proofread_document_inline.py (inline-edit mode),    *)
(* with the budget rules of src/doc_proofreader/chunk_utils.py.            *)
(*                                                                         *)
(* A Python str is a sequence of one-character strings.  The token "X"     *)
(* stands for a run of BlockLen ordinary letters: it contains no tag       *)
(* character and no whitespace, so every string operation of the code      *)
(* (concatenation, len, the tag regex, split on the separator, strip)      *)
(* treats it as text; only len counts it as BlockLen characters.           *)
EXTENDS Integers, Sequences, FiniteSets, TLC

VARIABLES
    pc,              \* where the run is
    mode,            \* "report": proofread_document, "inline": ..._with_track_changes_mac
    doc,             \* the document: a sequence of paragraphs [style, runs]
    chunk_size_arg,  \* the chunk_size_arg parameter (None when not given)
    additional_instructions, \* the additional_instructions parameter
    model_name,      \* model_info['name']
    window,          \* model_info['context_window']
    chunk_size,      \* the resolved budget in characters
    validation,      \* what validate_chunk_size returned (None when it was not called)
    chunks,          \* the chunks docx_to_chunks returned
    parallel,        \* the parallel parameter, as the dispatch read it
    max_workers,     \* the max_workers parameter, as the dispatch read it
    pool,            \* max_workers of the ThreadPoolExecutor (0: sequential path)
    task,            \* per chunk index: "none", "queued", "running", "ok", "failed"
    submits,         \* per chunk index: how many tasks executor.submit was given for it
    resp,            \* per chunk index: what its completion call returned or raised
    clientOf,        \* per chunk index: the client instance its call used (0: none)
    nclients,        \* number of client instances created so far
    results,         \* the result slots (results / corrected_chunks)
    collected,       \* the task indices of the futures as_completed has yielded, in its order
    writes,          \* per chunk index: how many times its slot was assigned
    calls,           \* number of create_completion calls started
    output,          \* aggregated_output (report mode)
    corrected_doc,   \* the rebuilt paragraphs (inline mode)
    pending_lines,   \* reassembly line by line: the corrected lines still to come
    para_index,      \* reassembly line by line: para_idx
    styled_from,     \* per rebuilt paragraph: the original paragraph whose style it
                     \* was given, counted from 1 (0: no style copied)
    artifact,        \* the file written, NoFile when none
    para,            \* codec check: the paragraph's runs
    pieces,          \* decoder check: the tags and texts a line is written from
    tagged,          \* codec check: the encoded line
    decoded          \* codec check: the runs the decoder built

vars == <<pc, mode, doc, chunk_size_arg, additional_instructions, model_name,
          window, chunk_size, validation, chunks, parallel, max_workers,
          pool, task, submits, resp, clientOf, nclients, results, collected,
          writes, calls, output, corrected_doc, pending_lines, para_index, styled_from,
          artifact, para, pieces, tagged, decoded>>

-----------------------------------------------------------------------------
(* Bounds of the model *)

\* paragraphs per document
MaxParas == 3
\* runs per paragraph in the codec check
MaxRuns == 2
\* largest max_workers a caller passes
MaxWorkers == 2
\* budgets -1..MaxBudget are tried on docx_to_chunks called directly
MaxBudget == 14
\* length of the run of letters the token "X" stands for
BlockLen == 1200
\* the budget rules are tried on the arguments 0w..MaxNumber w and 0c..MaxNumber c
MaxNumber == 12
\* and on the context windows 0..MaxWindow
MaxWindow == 5
\* tags and texts per line in the decoder check
MaxPieces == 4

-----------------------------------------------------------------------------
(* Strings *)

None == <<"None">>
NoFile == "none"

CharLen(c) == IF c = "X" THEN BlockLen ELSE 1

RECURSIVE StrLen(_)
StrLen(s) == IF s = <<>> THEN 0 ELSE CharLen(Head(s)) + StrLen(Tail(s))

IsSpace(c) == c \in {" ", "\n", "\t", "\r"}

RECURSIVE LStrip(_)
LStrip(s) == IF s # <<>> /\ IsSpace(Head(s)) THEN LStrip(Tail(s)) ELSE s

RECURSIVE RStrip(_)
RStrip(s) ==
    IF s # <<>> /\ IsSpace(s[Len(s)]) THEN RStrip(SubSeq(s, 1, Len(s) - 1)) ELSE s

\* str.strip()
Strip(s) == RStrip(LStrip(s))

\* s.startswith(p, i - 1)
StartsAt(s, i, p) ==
    /\ i + Len(p) - 1 <= Len(s)
    /\ \A k \in 1..Len(p) : s[i + k - 1] = p[k]

\* p in s
Contains(s, p) == \E i \in 1..(Len(s) + 1) : StartsAt(s, i, p)

\* str.lower() on the letters the inputs use
LowerChar(c) ==
    CASE c = "A" -> "a" [] c = "U" -> "u" [] c = "T" -> "t" [] c = "O" -> "o"
      [] c = "W" -> "w" [] c = "C" -> "c" [] OTHER -> c

Lower(s) == [k \in 1..Len(s) |-> LowerChar(s[k])]

RECURSIVE Concat(_)
Concat(ss) == IF ss = <<>> THEN <<>> ELSE Head(ss) \o Concat(Tail(ss))

\* sep.join(ss)
RECURSIVE Join(_, _)
Join(sep, ss) ==
    IF ss = <<>> THEN <<>>
    ELSE IF Len(ss) = 1 THEN ss[1]
    ELSE ss[1] \o sep \o Join(sep, Tail(ss))

\* s.split(sep): cut at the leftmost non-overlapping occurrences of sep
RECURSIVE SplitOn(_, _, _, _)
SplitOn(s, sep, i, cur) ==
    IF i > Len(s) THEN <<cur>>
    ELSE IF StartsAt(s, i, sep) THEN <<cur>> \o SplitOn(s, sep, i + Len(sep), <<>>)
    ELSE SplitOn(s, sep, i + 1, Append(cur, s[i]))

Digit(d) ==
    CASE d = 0 -> "0" [] d = 1 -> "1" [] d = 2 -> "2" [] d = 3 -> "3" [] d = 4 -> "4"
      [] d = 5 -> "5" [] d = 6 -> "6" [] d = 7 -> "7" [] d = 8 -> "8" [] d = 9 -> "9"

DigitValue(c) ==
    CASE c = "0" -> 0 [] c = "1" -> 1 [] c = "2" -> 2 [] c = "3" -> 3 [] c = "4" -> 4
      [] c = "5" -> 5 [] c = "6" -> 6 [] c = "7" -> 7 [] c = "8" -> 8 [] c = "9" -> 9

IsDigit(c) == c \in {"0", "1", "2", "3", "4", "5", "6", "7", "8", "9"}

\* str(n) for n >= 0, as an f-string formats an int
RECURSIVE IntToStr(_)
IntToStr(n) == IF n < 10 THEN <<Digit(n)>> ELSE Append(IntToStr(n \div 10), Digit(n % 10))

\* int(s) for a string of digits
RECURSIVE StrToInt(_)
StrToInt(s) ==
    IF s = <<>> THEN 0
    ELSE 10 * StrToInt(SubSeq(s, 1, Len(s) - 1)) + DigitValue(s[Len(s)])

-----------------------------------------------------------------------------
(* The formatting codec *)

\* the paragraph separator: two spaces and a newline
Sep == <<" ", " ", "\n">>

TagB == <<"<", "b", ">">>
TagI == <<"<", "i", ">">>
TagBI == <<"<", "b", ">", "<", "i", ">">>
TagEndB == <<"<", "/", "b", ">">>
TagEndI == <<"<", "/", "i", ">">>
TagEndBI == <<"<", "/", "b", ">", "<", "/", "i", ">">>
TagEndIB == <<"<", "/", "i", ">", "<", "/", "b", ">">>

\* the alternatives of the regular expression, in its order
TagPattern == <<TagBI, TagB, TagI, TagEndBI, TagEndB, TagEndI>>

\* EncodeRun with the bold test before the bold-and-italic test
EncodeRunBoldFirst(run) ==
    IF run.bold THEN TagB \o run.text \o TagEndB
    ELSE IF run.italic THEN TagI \o run.text \o TagEndI
    ELSE run.text

\* one run as docx_to_chunks writes it into current_paragraph
EncodeRun(run) ==
    IF run.bold /\ run.italic THEN TagBI \o run.text \o TagEndIB
    ELSE IF run.bold THEN TagB \o run.text \o TagEndB
    ELSE IF run.italic THEN TagI \o run.text \o TagEndI
    ELSE run.text

\* the inner loop of docx_to_chunks over para.runs
RECURSIVE EncodeRuns(_)
EncodeRuns(runs) ==
    IF runs = <<>> THEN <<>> ELSE EncodeRun(Head(runs)) \o EncodeRuns(Tail(runs))

\* current_paragraph once the separator is added
ParagraphText(p) == EncodeRuns(p.runs) \o Sep

\* the first alternative of the pattern that matches at position i, <<>> if none
MatchAt(s, i) ==
    LET hits == {k \in 1..Len(TagPattern) : StartsAt(s, i, TagPattern[k])}
    IN IF hits = {} THEN <<>>
       ELSE TagPattern[CHOOSE k \in hits : \A j \in hits : k <= j]

\* re.split(pattern, s) with the pattern in one capturing group:
\* text, tag, text, ..., tag, text
RECURSIVE ReSplit(_, _, _)
ReSplit(s, i, cur) ==
    IF i > Len(s) THEN <<cur>>
    ELSE LET m == MatchAt(s, i)
         IN IF m # <<>> THEN <<cur, m>> \o ReSplit(s, i + Len(m), <<>>)
            ELSE ReSplit(s, i + 1, Append(cur, s[i]))

\* the loop with tags that flip the flags they name
RECURSIVE ApplyPartsToggle(_, _, _)
ApplyPartsToggle(parts, current_bold, current_italic) ==
    IF parts = <<>> THEN <<>>
    ELSE LET part == Head(parts)
             rest == Tail(parts)
         IN IF part = TagB \/ part = TagEndB
            THEN ApplyPartsToggle(rest, ~current_bold, current_italic)
            ELSE IF part = TagI \/ part = TagEndI
            THEN ApplyPartsToggle(rest, current_bold, ~current_italic)
            ELSE IF part = TagBI \/ part = TagEndBI
            THEN ApplyPartsToggle(rest, ~current_bold, ~current_italic)
            ELSE IF part # <<>> /\ Strip(part) # <<>>
                 THEN <<[text |-> part, bold |-> current_bold, italic |-> current_italic]>>
                      \o ApplyPartsToggle(rest, current_bold, current_italic)
                 ELSE ApplyPartsToggle(rest, current_bold, current_italic)

\* the loop of apply_formatted_text_to_paragraph over parts
RECURSIVE ApplyParts(_, _, _)
ApplyParts(parts, current_bold, current_italic) ==
    IF parts = <<>> THEN <<>>
    ELSE LET part == Head(parts)
             rest == Tail(parts)
         IN IF part = TagB THEN ApplyParts(rest, TRUE, current_italic)
            ELSE IF part = TagEndB THEN ApplyParts(rest, FALSE, current_italic)
            ELSE IF part = TagI THEN ApplyParts(rest, current_bold, TRUE)
            ELSE IF part = TagEndI THEN ApplyParts(rest, current_bold, FALSE)
            ELSE IF part = TagBI THEN ApplyParts(rest, TRUE, TRUE)
            ELSE IF part = TagEndBI \/ part = TagEndIB THEN ApplyParts(rest, FALSE, FALSE)
            ELSE IF part # <<>> /\ Strip(part) # <<>>
                 THEN <<[text |-> part, bold |-> current_bold, italic |-> current_italic]>>
                      \o ApplyParts(rest, current_bold, current_italic)
            ELSE ApplyParts(rest, current_bold, current_italic)

\* the runs apply_formatted_text_to_paragraph gives the paragraph
apply_formatted_text_to_paragraph(formatted_text) ==
    ApplyParts(ReSplit(formatted_text, 1, <<>>), FALSE, FALSE)

-----------------------------------------------------------------------------
(* The chunker *)

\* ChunkLoop without the remainder after the loop
RECURSIVE ChunkLoopNoRemainder(_, _, _, _)
ChunkLoopNoRemainder(paras, size, chunks_, current_chunk) ==
    IF paras = <<>> THEN chunks_
    ELSE LET c == current_chunk \o ParagraphText(Head(paras))
         IN IF StrLen(c) > size
            THEN ChunkLoopNoRemainder(Tail(paras), size, Append(chunks_, c), <<>>)
            ELSE ChunkLoopNoRemainder(Tail(paras), size, chunks_, c)

\* ChunkLoop cutting an over-long buffer at the budget instead of at the paragraph
RECURSIVE ChunkLoopHardCut(_, _, _, _)
ChunkLoopHardCut(paras, size, chunks_, current_chunk) ==
    IF paras = <<>>
    THEN IF current_chunk # <<>> THEN Append(chunks_, current_chunk) ELSE chunks_
    ELSE LET c == current_chunk \o ParagraphText(Head(paras))
             cut == IF size < 1 THEN 1 ELSE size
         IN IF Len(c) > size
            THEN ChunkLoopHardCut(Tail(paras), size, Append(chunks_, SubSeq(c, 1, cut)),
                                  SubSeq(c, cut + 1, Len(c)))
            ELSE ChunkLoopHardCut(Tail(paras), size, chunks_, c)

\* ChunkLoop appending the remainder whether or not it is empty
RECURSIVE ChunkLoopEmptyRemainder(_, _, _, _)
ChunkLoopEmptyRemainder(paras, size, chunks_, current_chunk) ==
    IF paras = <<>> THEN Append(chunks_, current_chunk)
    ELSE LET c == current_chunk \o ParagraphText(Head(paras))
         IN IF StrLen(c) > size
            THEN ChunkLoopEmptyRemainder(Tail(paras), size, Append(chunks_, c), <<>>)
            ELSE ChunkLoopEmptyRemainder(Tail(paras), size, chunks_, c)

\* the loop of docx_to_chunks over doc.paragraphs, then the remainder
RECURSIVE ChunkLoop(_, _, _, _)
ChunkLoop(paras, size, chunks_, current_chunk) ==
    IF paras = <<>>
    THEN IF current_chunk # <<>> THEN Append(chunks_, current_chunk) ELSE chunks_
    ELSE LET c == current_chunk \o ParagraphText(Head(paras))
         IN IF StrLen(c) > size
            THEN ChunkLoop(Tail(paras), size, Append(chunks_, c), <<>>)
            ELSE ChunkLoop(Tail(paras), size, chunks_, c)

\* proofread_document.docx_to_chunks
docx_to_chunks(d, size) == ChunkLoop(d, size, <<>>, <<>>)

\* proofread_document_inline.docx_to_chunks
docx_to_chunks_inline(d, size) == ChunkLoop(d, size, <<>>, <<>>)

-----------------------------------------------------------------------------
(* Budget rules: chunk_utils.py *)

Auto == <<"a", "u", "t", "o">>
Gpt4 == <<"g", "p", "t", "-", "4">>
Gpt4o == <<"g", "p", "t", "-", "4", "o">>
Gpt4oMini == <<"g", "p", "t", "-", "4", "o", "-", "m", "i", "n", "i">>
Gpt5 == <<"g", "p", "t", "-", "5">>
Gpt5Mini == <<"g", "p", "t", "-", "5", "-", "m", "i", "n", "i">>
Gpt35Turbo == <<"g", "p", "t", "-", "3", ".", "5", "-", "t", "u", "r", "b", "o">>
Gemini25 == <<"g", "e", "m", "i", "n", "i", "-", "2", ".", "5">>
Gemini == <<"g", "e", "m", "i", "n", "i">>
Claude == <<"c", "l", "a", "u", "d", "e">>

\* the outcome of a call that raises
Raised == [ok |-> FALSE, value |-> 0]

Returned(v) == [ok |-> TRUE, value |-> v]

\* re.match(r'^(\d+)([wc])$', s): digits, then w or c; $ also matches before a
\* final newline
MatchesSize(s) ==
    /\ Len(s) >= 2
    /\ s[Len(s)] \in {"w", "c"}
    /\ \A k \in 1..(Len(s) - 1) : IsDigit(s[k])

SizeMatch(s) ==
    IF MatchesSize(s) THEN s
    ELSE IF s # <<>> /\ s[Len(s)] = "\n" /\ MatchesSize(SubSeq(s, 1, Len(s) - 1))
    THEN SubSeq(s, 1, Len(s) - 1)
    ELSE <<>>

\* the product rounded to the nearest integer, ties to the even one
WordsToCharsRounded(number) ==
    LET low == (11 * number) \div 2
    IN IF number % 2 = 0 \/ low % 2 = 0 THEN low ELSE low + 1

\* a factor of 0.55 in place of 5.5
WordsToCharsTenth(number) == (11 * number) \div 20

\* int(number * 5.5): the product is exact in a double, int() truncates
WordsToChars(number) == (11 * number) \div 2

parse_chunk_size(chunk_arg) ==
    IF Lower(chunk_arg) = Auto THEN Returned(0)
    ELSE LET m == SizeMatch(Lower(chunk_arg))
         IN IF m = <<>> THEN Raised
            ELSE LET number == StrToInt(SubSeq(m, 1, Len(m) - 1))
                     unit == m[Len(m)]
                 IN IF unit = "w" THEN Returned(WordsToChars(number))
                    ELSE Returned(number)

Min(a, b) == IF a < b THEN a ELSE b

\* int(context_window * 0.3) * 4, capped per model family
get_optimal_chunk_size(name, context_window) ==
    LET usable_tokens == (context_window * 3) \div 10
        calculated_chars == usable_tokens * 4
    IN IF Contains(name, Gemini25) THEN Min(calculated_chars, 80000)
       ELSE IF Contains(name, Gemini) THEN Min(calculated_chars, 60000)
       ELSE IF Contains(name, Claude) THEN Min(calculated_chars, 50000)
       ELSE IF Contains(name, Gpt5) THEN Min(calculated_chars, 70000)
       ELSE IF Contains(name, Gpt4o) THEN Min(calculated_chars, 40000)
       ELSE IF Contains(name, Gpt4) THEN Min(calculated_chars, 20000)
       ELSE Min(calculated_chars, 30000)

MsgTooSmall1 == <<"C", "h", "u", "n", "k", " ", "s", "i", "z", "e", " ", "t", "o", "o", " ", "s", "m", "a", "l", "l", " ", "(">>
MsgTooSmall2 == <<" ", "c", "h", "a", "r", "s", ")", ".", " ", "M", "i", "n", "i", "m", "u", "m", " ", "r", "e", "c", "o", "m", "m", "e", "n", "d", "e", "d", ":", " ", "5", "0", "0", "0", "c">>
MsgTooLarge1 == <<"C", "h", "u", "n", "k", " ", "s", "i", "z", "e", " ", "t", "o", "o", " ", "l", "a", "r", "g", "e", " ", "(">>
MsgTooLarge2 == <<" ", "c", "h", "a", "r", "s", ")", ".", " ", "M", "a", "x", "i", "m", "u", "m", " ", "f", "o", "r", " ">>
\* the warning sign is the one token "WARN"
MsgWarn1 == <<"WARN", " ", " ", "L", "a", "r", "g", "e", " ", "c", "h", "u", "n", "k", " ", "s", "i", "z", "e", " ", "(">>
MsgWarn2 == <<" ", "c", "h", "a", "r", "s", ")", ".", " ", "O", "p", "t", "i", "m", "a", "l", " ", "f", "o", "r", " ">>
MsgColon == <<":", " ">>

\* validate_chunk_size with the floor test written size < 1000
validate_chunk_size_open_floor(size, name, context_window) ==
    LET optimal == get_optimal_chunk_size(name, context_window)
    IN IF size < 1000 THEN [ok |-> FALSE, msg |-> MsgTooSmall1]
       ELSE IF 2 * size > 3 * optimal THEN [ok |-> FALSE, msg |-> MsgTooLarge1]
       ELSE IF size > optimal THEN [ok |-> TRUE, msg |-> MsgWarn1]
       ELSE [ok |-> TRUE, msg |-> <<>>]

\* validate_chunk_size with the ceiling test written size >= optimal * 1.5
validate_chunk_size_closed_ceiling(size, name, context_window) ==
    LET optimal == get_optimal_chunk_size(name, context_window)
    IN IF size <= 1000 THEN [ok |-> FALSE, msg |-> MsgTooSmall1]
       ELSE IF 2 * size >= 3 * optimal THEN [ok |-> FALSE, msg |-> MsgTooLarge1]
       ELSE IF size > optimal THEN [ok |-> TRUE, msg |-> MsgWarn1]
       ELSE [ok |-> TRUE, msg |-> <<>>]

\* (is_valid, warning_message); size > optimal * 1.5 compared exactly
validate_chunk_size(size, name, context_window) ==
    LET optimal == get_optimal_chunk_size(name, context_window)
    IN IF size <= 1000
       THEN [ok |-> FALSE, msg |-> MsgTooSmall1 \o IntToStr(size) \o MsgTooSmall2]
       ELSE IF 2 * size > 3 * optimal
       THEN [ok |-> FALSE,
             msg |-> MsgTooLarge1 \o IntToStr(size) \o MsgTooLarge2 \o name
                     \o MsgColon \o IntToStr(optimal) \o <<"c">>]
       ELSE IF size > optimal
       THEN [ok |-> TRUE,
             msg |-> MsgWarn1 \o IntToStr(size) \o MsgWarn2 \o name
                     \o MsgColon \o IntToStr(optimal) \o <<"c">>]
       ELSE [ok |-> TRUE, msg |-> <<>>]

\* OpenAIClient.get_model_info()['context_window']: the table, gpt-4o's entry
\* for a name it does not list
ContextWindow(name) ==
    IF name = Gpt5Mini THEN 400000
    ELSE IF name = Gpt4o THEN 128000
    ELSE IF name = Gpt4oMini THEN 128000
    ELSE IF name = Gpt4 THEN 8192
    ELSE IF name = Gpt35Turbo THEN 16385
    ELSE 128000

\* chunk_size when no chunk_size_arg is given
DefaultChunkSize == 27500

-----------------------------------------------------------------------------
(* Reassembly: proofread_document_inline.py *)

\* the style python-docx gives a paragraph added without one
DefaultStyle == "Normal"

\* the loop without the branch for lines beyond the original paragraphs
RECURSIVE LineLoopDropSurplus(_, _, _, _)
LineLoopDropSurplus(lines, original_paras, para_idx, out) ==
    IF lines = <<>> THEN [paras |-> out, para_idx |-> para_idx]
    ELSE LET corrected_line == Head(lines)
         IN IF Strip(corrected_line) # <<>> /\ para_idx < Len(original_paras)
            THEN LineLoopDropSurplus(Tail(lines), original_paras, para_idx + 1,
                   Append(out, [style |-> original_paras[para_idx + 1].style,
                                runs |-> apply_formatted_text_to_paragraph(corrected_line)]))
            ELSE LineLoopDropSurplus(Tail(lines), original_paras, para_idx, out)

\* the loop with para_idx left where it is
RECURSIVE LineLoopNoAdvance(_, _, _, _)
LineLoopNoAdvance(lines, original_paras, para_idx, out) ==
    IF lines = <<>> THEN [paras |-> out, para_idx |-> para_idx]
    ELSE LET corrected_line == Head(lines)
         IN IF Strip(corrected_line) # <<>>
            THEN IF para_idx < Len(original_paras)
                 THEN LineLoopNoAdvance(Tail(lines), original_paras, para_idx,
                        Append(out, [style |-> original_paras[para_idx + 1].style,
                                     runs |-> apply_formatted_text_to_paragraph(corrected_line)]))
                 ELSE LineLoopNoAdvance(Tail(lines), original_paras, para_idx,
                        Append(out, [style |-> DefaultStyle,
                                     runs |-> apply_formatted_text_to_paragraph(corrected_line)]))
            ELSE LineLoopNoAdvance(Tail(lines), original_paras, para_idx, out)

\* the loop over corrected_lines, for the lines of every chunk in order
RECURSIVE LineLoop(_, _, _, _)
LineLoop(lines, original_paras, para_idx, out) ==
    IF lines = <<>> THEN [paras |-> out, para_idx |-> para_idx]
    ELSE LET corrected_line == Head(lines)
         IN IF Strip(corrected_line) # <<>>
            THEN IF para_idx < Len(original_paras)
                 THEN LineLoop(Tail(lines), original_paras, para_idx + 1,
                        Append(out, [style |-> original_paras[para_idx + 1].style,
                                     runs |-> apply_formatted_text_to_paragraph(corrected_line)]))
                 ELSE LineLoop(Tail(lines), original_paras, para_idx,
                        Append(out, [style |-> DefaultStyle,
                                     runs |-> apply_formatted_text_to_paragraph(corrected_line)]))
            ELSE LineLoop(Tail(lines), original_paras, para_idx, out)

\* corrected_chunk.split("  \n") for each pair zip() yields
CorrectedLines(original_chunks, corrected_chunks) ==
    Concat([k \in 1..Min(Len(original_chunks), Len(corrected_chunks)) |->
              SplitOn(corrected_chunks[k], Sep, 1, <<>>)])

create_corrected_document_from_chunks(original_paras, original_chunks, corrected_chunks) ==
    LineLoop(CorrectedLines(original_chunks, corrected_chunks), original_paras, 0, <<>>)

-----------------------------------------------------------------------------
(* Inputs *)

SeqsUpTo(S, n) == UNION {[1..k -> S] : k \in 0..n}

Run(t, b, i) == [text |-> t, bold |-> b, italic |-> i]

\* run texts of the codec check: empty, a letter, a blank, a literal tag
RunTexts == {<<>>, <<"a">>, <<" ">>, TagB}

AllRuns == [text : RunTexts, bold : BOOLEAN, italic : BOOLEAN]

\* paragraphs of the documents docx_to_chunks is called on directly
ChunkParas ==
    { [style |-> "Heading 1", runs |-> <<Run(<<"a">>, TRUE, FALSE)>>],
      [style |-> "Normal", runs |-> <<Run(<<"a">>, FALSE, TRUE)>>],
      [style |-> "Quote", runs |-> <<Run(<<"a">>, FALSE, FALSE), Run(<<"a">>, TRUE, TRUE)>>],
      [style |-> "Normal", runs |-> <<>>],
      [style |-> "Normal", runs |-> <<Run(<<" ">>, FALSE, FALSE)>>] }

\* what every variable the entry point does not take as input starts as
Fresh ==
    /\ validation = None
    /\ chunks = <<>>
    /\ parallel = FALSE
    /\ max_workers = 0
    /\ pool = 0
    /\ task = <<>>
    /\ submits = <<>>
    /\ resp = <<>>
    /\ clientOf = <<>>
    /\ nclients = 0
    /\ results = <<>>
    /\ collected = <<>>
    /\ writes = <<>>
    /\ calls = 0
    /\ output = None
    /\ corrected_doc = <<>>
    /\ pending_lines = <<>>
    /\ para_index = 0
    /\ styled_from = <<>>
    /\ artifact = NoFile
    /\ pieces = <<>>
    /\ tagged = <<>>
    /\ decoded = <<>>

-----------------------------------------------------------------------------
(* SpecCodec: one paragraph through the codec *)

InitCodec ==
    /\ pc = "codec"
    /\ para \in SeqsUpTo(AllRuns, MaxRuns)
    /\ mode = "inline"
    /\ doc = <<>>
    /\ chunk_size_arg = None
    /\ additional_instructions = <<>>
    /\ model_name = Gpt5Mini
    /\ window = ContextWindow(model_name)
    /\ chunk_size = 0
    /\ Fresh

\* the run loop of docx_to_chunks on the paragraph
EncodeParagraph ==
    /\ pc = "codec"
    /\ tagged' = EncodeRuns(para)
    /\ pc' = "encoded"
    /\ UNCHANGED <<mode, doc, chunk_size_arg, additional_instructions,
                   model_name, window, chunk_size, validation, chunks,
                   parallel, max_workers, pool, task, submits, resp, clientOf,
                   nclients, results, collected, writes, calls, output,
                   corrected_doc, pending_lines, para_index, styled_from,
                   artifact, para, pieces, decoded>>

\* apply_formatted_text_to_paragraph on the encoded line
DecodeParagraph ==
    /\ pc = "encoded"
    /\ decoded' = apply_formatted_text_to_paragraph(tagged)
    /\ pc' = "decoded"
    /\ UNCHANGED <<mode, doc, chunk_size_arg, additional_instructions,
                   model_name, window, chunk_size, validation, chunks,
                   parallel, max_workers, pool, task, submits, resp, clientOf,
                   nclients, results, collected, writes, calls, output,
                   corrected_doc, pending_lines, para_index, styled_from,
                   artifact, para, pieces, tagged>>

NextCodec == EncodeParagraph \/ DecodeParagraph

SpecCodec == InitCodec /\ [][NextCodec]_vars

-----------------------------------------------------------------------------
(* SpecDecode: the decoder on lines as a completion may write them *)

\* what a line is written from: opening and closing tags in any order, a
\* letter, a blank, and a "<" that starts no tag
Pieces == {TagB, TagI, TagEndB, TagEndI, <<"a">>, <<" ">>, <<"<">>}

InitDecode ==
    /\ pc = "pieces"
    /\ pieces \in SeqsUpTo(Pieces, MaxPieces)
    /\ tagged = <<>>
    /\ decoded = <<>>
    /\ para = <<>>
    /\ mode = "inline"
    /\ doc = <<>>
    /\ chunk_size_arg = None
    /\ additional_instructions = <<>>
    /\ model_name = Gpt5Mini
    /\ window = ContextWindow(model_name)
    /\ chunk_size = 0
    /\ validation = None
    /\ chunks = <<>>
    /\ parallel = FALSE
    /\ max_workers = 0
    /\ pool = 0
    /\ task = <<>>
    /\ submits = <<>>
    /\ resp = <<>>
    /\ clientOf = <<>>
    /\ nclients = 0
    /\ results = <<>>
    /\ collected = <<>>
    /\ writes = <<>>
    /\ calls = 0
    /\ output = None
    /\ corrected_doc = <<>>
    /\ pending_lines = <<>>
    /\ para_index = 0
    /\ styled_from = <<>>
    /\ artifact = NoFile

\* the line: the pieces one after the other
WriteLine ==
    /\ pc = "pieces"
    /\ tagged' = Concat(pieces)
    /\ pc' = "line"
    /\ UNCHANGED <<mode, doc, chunk_size_arg, additional_instructions,
                   model_name, window, chunk_size, validation, chunks,
                   parallel, max_workers, pool, task, submits, resp, clientOf,
                   nclients, results, collected, writes, calls, output,
                   corrected_doc, pending_lines, para_index, styled_from,
                   artifact, para, pieces, decoded>>

\* apply_formatted_text_to_paragraph on the line
DecodeLine ==
    /\ pc = "line"
    /\ decoded' = apply_formatted_text_to_paragraph(tagged)
    /\ pc' = "runs"
    /\ UNCHANGED <<mode, doc, chunk_size_arg, additional_instructions,
                   model_name, window, chunk_size, validation, chunks,
                   parallel, max_workers, pool, task, submits, resp, clientOf,
                   nclients, results, collected, writes, calls, output,
                   corrected_doc, pending_lines, para_index, styled_from,
                   artifact, para, pieces, tagged>>

NextDecode == WriteLine \/ DecodeLine

SpecDecode == InitDecode /\ [][NextDecode]_vars

-----------------------------------------------------------------------------
(* SpecBudget: the budget rules of chunk_utils.py called directly *)

\* the numbers N of the arguments: the small ones, and those next to the floor
\* of 1000, to an optimal size and to one and a half times it
Numbers ==
    (0..MaxNumber) \cup {999, 1000, 1001, 1200, 1201, 1800, 1801, 5000, 19999,
                         20000, 20001, 30000, 30001}

\* context windows in tokens: the small ones, one that gives an optimal size
\* just above the floor, and entries of the tables
Windows == (0..MaxWindow) \cup {1000, 8192, 400000}

\* chunk_size_arg values: NNNw, NNNc, auto in two spellings, and a malformed one
BudgetArgs ==
    { IntToStr(n) \o <<u>> : n \in Numbers, u \in {"w", "c"} }
      \cup {Auto, <<"A", "U", "T", "O">>, <<"1", "0", "W">>, <<"b", "o", "g", "u", "s">>}

InitBudget ==
    /\ pc = "budget"
    /\ chunk_size_arg \in BudgetArgs
    /\ model_name \in {Gpt4, Gpt5Mini}
    /\ window \in Windows
    /\ mode = "report"
    /\ doc = <<>>
    /\ additional_instructions = <<>>
    /\ chunk_size = 0
    /\ para = <<>>
    /\ Fresh

\* the budget: get_optimal_chunk_size for auto, parse_chunk_size otherwise
ResolveArg ==
    /\ pc = "budget"
    /\ IF Lower(chunk_size_arg) = Auto
       THEN /\ chunk_size' = get_optimal_chunk_size(model_name, window)
            /\ pc' = "resolved"
       ELSE LET parsed == parse_chunk_size(chunk_size_arg)
            IN IF parsed.ok
               THEN /\ chunk_size' = parsed.value
                    /\ pc' = "resolved"
               ELSE /\ pc' = "raised"
                    /\ UNCHANGED chunk_size
    /\ UNCHANGED <<mode, doc, chunk_size_arg, additional_instructions,
                   model_name, window, validation, chunks, parallel,
                   max_workers, pool, task, submits, resp, clientOf, nclients,
                   results, collected, writes, calls, output, corrected_doc,
                   pending_lines, para_index, styled_from, artifact, para,
                   pieces, tagged, decoded>>

\* validate_chunk_size on the budget
ValidateBudget ==
    /\ pc = "resolved"
    /\ validation' = validate_chunk_size(chunk_size, model_name, window)
    /\ pc' = "validated"
    /\ UNCHANGED <<mode, doc, chunk_size_arg, additional_instructions,
                   model_name, window, chunk_size, chunks, parallel,
                   max_workers, pool, task, submits, resp, clientOf, nclients,
                   results, collected, writes, calls, output, corrected_doc,
                   pending_lines, para_index, styled_from, artifact, para,
                   pieces, tagged, decoded>>

NextBudget == ResolveArg \/ ValidateBudget

SpecBudget == InitBudget /\ [][NextBudget]_vars

-----------------------------------------------------------------------------
(* SpecChunk: docx_to_chunks and reassembly called directly *)

InitChunk ==
    /\ pc = "chunker"
    /\ doc \in SeqsUpTo(ChunkParas, MaxParas)
    /\ chunk_size \in (-1)..MaxBudget
    /\ mode \in {"report", "inline"}
    /\ chunk_size_arg = None
    /\ additional_instructions = <<>>
    /\ model_name = Gpt5Mini
    /\ window = ContextWindow(model_name)
    /\ para = <<>>
    /\ Fresh

\* docx_to_chunks(document_path, chunk_size), of the module the mode names
ChunkDocument ==
    /\ pc = "chunker"
    /\ chunks' = IF mode = "report" THEN docx_to_chunks(doc, chunk_size)
                 ELSE docx_to_chunks_inline(doc, chunk_size)
    /\ pc' = "chunked"
    /\ UNCHANGED <<mode, doc, chunk_size_arg, additional_instructions,
                   model_name, window, chunk_size, validation, parallel,
                   max_workers, pool, task, submits, resp, clientOf, nclients,
                   results, collected, writes, calls, output, corrected_doc,
                   pending_lines, para_index, styled_from, artifact, para,
                   pieces, tagged, decoded>>

\* create_corrected_document_from_chunks with corrected chunks that echo the originals
ReassembleEcho ==
    /\ pc = "chunked"
    /\ mode = "inline"
    /\ results' = chunks
    /\ corrected_doc' = create_corrected_document_from_chunks(doc, chunks, chunks).paras
    /\ pc' = "reassembled"
    /\ UNCHANGED <<mode, doc, chunk_size_arg, additional_instructions,
                   model_name, window, chunk_size, validation, chunks,
                   parallel, max_workers, pool, task, submits, resp, clientOf,
                   nclients, collected, writes, calls, output, pending_lines,
                   para_index, styled_from, artifact, para, pieces, tagged,
                   decoded>>

\* what a completion makes of a chunk: one more line, one line only, or nothing
Edits == {"more", "one", "none"}

ExtraLine == <<"b">> \o Sep

Edited(chunk, edit) ==
    IF edit = "more" THEN chunk \o ExtraLine
    ELSE IF edit = "one" THEN ExtraLine
    ELSE <<>>

\* create_corrected_document_from_chunks with one corrected chunk that differs
\* from its original and the others echoing theirs
ReassembleEdited ==
    /\ pc = "chunked"
    /\ mode = "inline"
    /\ \E k \in 1..Len(chunks), edit \in Edits :
         LET corrected_chunks == [chunks EXCEPT ![k] = Edited(chunks[k], edit)]
         IN /\ results' = corrected_chunks
            /\ corrected_doc' =
                 create_corrected_document_from_chunks(doc, chunks, corrected_chunks).paras
    /\ pc' = "rebuilt"
    /\ UNCHANGED <<mode, doc, chunk_size_arg, additional_instructions,
                   model_name, window, chunk_size, validation, chunks,
                   parallel, max_workers, pool, task, submits, resp, clientOf,
                   nclients, collected, writes, calls, output, pending_lines,
                   para_index, styled_from, artifact, para, pieces, tagged,
                   decoded>>

NextChunk == ChunkDocument \/ ReassembleEcho

SpecChunk == InitChunk /\ [][NextChunk]_vars

\* SpecRebuild: the inline chunker, then reassembly from corrected chunks that
\* echo the originals or differ from them in one chunk
InitRebuild ==
    /\ pc = "chunker"
    /\ doc \in SeqsUpTo(ChunkParas, MaxParas)
    /\ chunk_size \in {1, MaxBudget}
    /\ mode = "inline"
    /\ chunk_size_arg = None
    /\ additional_instructions = <<>>
    /\ model_name = Gpt5Mini
    /\ window = ContextWindow(model_name)
    /\ para = <<>>
    /\ Fresh

NextRebuild == ChunkDocument \/ ReassembleEcho \/ ReassembleEdited

SpecRebuild == InitRebuild /\ [][NextRebuild]_vars

\* SpecLines: create_corrected_document_from_chunks one corrected line at a time

\* the call: para_idx = 0, an emptied document, the lines of every chunk
StartReassembly ==
    /\ pc = "chunked"
    /\ mode = "inline"
    /\ \E k \in 0..Len(chunks), edit \in Edits :
         LET corrected_chunks ==
                 IF k = 0 THEN chunks ELSE [chunks EXCEPT ![k] = Edited(chunks[k], edit)]
         IN /\ results' = corrected_chunks
            /\ pending_lines' = CorrectedLines(chunks, corrected_chunks)
    /\ para_index' = 0
    /\ corrected_doc' = <<>>
    /\ styled_from' = <<>>
    /\ pc' = "lines"
    /\ UNCHANGED <<mode, doc, chunk_size_arg, additional_instructions,
                   model_name, window, chunk_size, validation, chunks, parallel,
                   max_workers, pool, task, submits, resp, clientOf, nclients,
                   collected, writes, calls, output, artifact, para,
                   pieces, tagged, decoded>>

\* one pass of the loop body, for the next corrected line
ReassembleLine ==
    /\ pc = "lines"
    /\ pending_lines # <<>>
    /\ LET step == LineLoop(<<Head(pending_lines)>>, doc, para_index, corrected_doc)
       IN /\ corrected_doc' = step.paras
          /\ para_index' = step.para_idx
          /\ styled_from' =
               IF Len(step.paras) = Len(corrected_doc) THEN styled_from
               ELSE Append(styled_from,
                           IF para_index < Len(doc) THEN para_index + 1 ELSE 0)
    /\ pending_lines' = Tail(pending_lines)
    /\ UNCHANGED pc
    /\ UNCHANGED <<mode, doc, chunk_size_arg, additional_instructions,
                   model_name, window, chunk_size, validation, chunks, parallel,
                   max_workers, pool, task, submits, resp, clientOf, nclients,
                   results, collected, writes, calls, output, artifact, para,
                   pieces, tagged, decoded>>

\* return corrected_doc
FinishReassembly ==
    /\ pc = "lines"
    /\ pending_lines = <<>>
    /\ pc' = "returned"
    /\ UNCHANGED <<mode, doc, chunk_size_arg, additional_instructions,
                   model_name, window, chunk_size, validation, chunks, parallel,
                   max_workers, pool, task, submits, resp, clientOf, nclients,
                   results, collected, writes, calls, output, corrected_doc, pending_lines,
                   para_index, styled_from, artifact, para,
                   pieces, tagged, decoded>>

NextLines == ChunkDocument \/ StartReassembly \/ ReassembleLine \/ FinishReassembly

SpecLines == InitRebuild /\ [][NextLines]_vars

-----------------------------------------------------------------------------
(* Spec: one run of proofread_document or                                   *)
(* proofread_document_with_track_changes_mac                                *)

\* the text process_chunk_with_llm compares the stripped completion to
Sentinel == <<"N", "o", " ", "e", "r", "r", "o", "r", "s", " ", "w", "e", "r", "e", " ", "f", "o", "u", "n", "d", ".">>

\* a completion text that is not the one the code compares to
NoIssuesText == <<"N", "o", " ", "i", "s", "s", "u", "e", "s", " ", "w", "e", "r", "e", " ", "f", "o", "u", "n", "d", ".">>

ErrorPrefix == <<"E", "r", "r", "o", "r", " ", "p", "r", "o", "c", "e", "s", "s", "i", "n", "g", " ", "c", "h", "u", "n", "k", " ">>

\* texts a completion call returns, and str(exc) of the exceptions it raises
Completions == {Sentinel, NoIssuesText}

Causes == {<<"t", "i", "m", "e", "o", "u", "t">>}

\* chunk_size_arg values a caller passes
Args ==
    { None, Auto,
      <<"1", "0", "0", "1", "c">>, <<"1", "0", "0", "0", "c">>,
      <<"1", "0", "0", "0", "w">>, <<"1", "5", "0", "0", "0", "c">>,
      <<"b", "o", "g", "u", "s">> }

Models == {Gpt4, Gpt5Mini}

\* additional_instructions values a caller passes
Instructions == {<<>>, <<"U", "K">>}

\* paragraphs of the documents a run reads: a short bold one and a long plain one
PipeParas ==
    { [style |-> "Heading 1", runs |-> <<Run(<<"a">>, TRUE, FALSE)>>],
      [style |-> "Normal", runs |-> <<Run(<<"X">>, FALSE, FALSE)>>] }

Init ==
    /\ pc = "start"
    /\ mode \in {"report", "inline"}
    /\ doc \in SeqsUpTo(PipeParas, MaxParas)
    /\ chunk_size_arg \in Args
    /\ additional_instructions = <<>>
    /\ model_name \in Models
    /\ window = ContextWindow(model_name)
    /\ chunk_size = 0
    /\ para = <<>>
    /\ Fresh

Indices == 1..Len(chunks)

\* the prompt texts, each a text of its own
DEFAULT_SYSTEM_PROMPT == <<"DEFAULT_SYSTEM_PROMPT">>

USER_PROMPT == <<"USER_PROMPT">>

DIRECT_EDIT_SYSTEM_PROMPT == <<"DIRECT_EDIT_SYSTEM_PROMPT">>

InstructionsPrefix ==
    <<"A", "d", "d", "i", "t", "i", "o", "n", "a", "l", " ", "i", "n", "s", "t", "r",
      "u", "c", "t", "i", "o", "n", "s", ":", " ">>

\* {"role": role, "content": content}
Message(role, content) == [role |-> role, content |-> content]

\* the message put at the end of the list
InsertAtEnd(messages, index, message) == Append(messages, message)

\* messages.insert(index, message), index counted from 0
InsertAt(messages, index, message) ==
    SubSeq(messages, 1, index) \o <<message>> \o SubSeq(messages, index + 1, Len(messages))

\* the messages process_chunk_with_llm sends
ReportMessages(chunk, instructions) ==
    LET messages == << Message("system", DEFAULT_SYSTEM_PROMPT),
                       Message("user", USER_PROMPT),
                       Message("user", chunk) >>
    IN IF instructions # <<>>
       THEN InsertAt(messages, 2, Message("user", instructions))
       ELSE messages

\* the messages process_chunk_for_direct_edit sends
InlineMessages(chunk, instructions) ==
    LET messages == << Message("system", DIRECT_EDIT_SYSTEM_PROMPT),
                       Message("user", chunk) >>
    IN IF instructions # <<>>
       THEN InsertAt(messages, 1, Message("user", InstructionsPrefix \o instructions))
       ELSE messages

\* the messages of the task function of the mode
TaskMessages(m, chunk, instructions) ==
    IF m = "report" THEN ReportMessages(chunk, instructions)
    ELSE InlineMessages(chunk, instructions)

\* process_chunk_with_llm without the comparison to the sentinel
NormalizeResultKeepsText(result) == result

\* what process_chunk_with_llm does with the completion text
NormalizeResult(result) == IF Strip(result) = Sentinel THEN <<>> ELSE result

\* what the task function of the mode returns for a completion text
TaskResult(m, result) == IF m = "report" THEN NormalizeResult(result) ELSE result

\* the error text with the zero-based index
ReportFallbackZeroBased(i, exc) == ErrorPrefix \o IntToStr(i - 1) \o <<":", " ">> \o exc

\* f"Error processing chunk {index + 1}: {exc}"; i is index + 1
ReportFallback(i, exc) == ErrorPrefix \o IntToStr(i) \o <<":", " ">> \o exc

\* original_chunks[index]
InlineFallback(i, original_chunks) == original_chunks[i]

\* the dispatch runs every chunk through the executor
UseExecutorAnyFlag(parallel_, n) == n > 1

\* parallel and len(chunks) > 1
UseExecutor(parallel_, n) == parallel_ /\ n > 1

\* an executor without a worker
PoolSizeNone(max_workers_, n) == 0

\* an executor with one worker per chunk
PoolSizePerChunk(max_workers_, n) == n

\* min(max_workers, len(chunks))
PoolSize(max_workers_, n) == Min(max_workers_, n)

\* the client the entry point creates first and reads the model info from
FirstClient == 1

\* every task given the first client
TaskClientShared(created) == FirstClient

\* ClientFactory.create_client(...) in the submit call: the next new instance,
\* created being the number of instances made before it
TaskClient(created) == created + 1

\* the slot the except branch fills
Fallback(m, i, exc, original_chunks) ==
    IF m = "report" THEN ReportFallback(i, exc) ELSE InlineFallback(i, original_chunks)

\* every result stored in the first slot
SlotFirst(i, done) == 1

\* the slot when results are stored in the order the futures complete
SlotByArrival(i, done) == Len(done) + 1

\* future_to_index[future] for the future of task i, as a slot of results
SlotOf(i, done) == i

\* aggregate_outputs joining with newlines
aggregate_outputs_newline(outputs) == Join(<<"\n">>, outputs)

aggregate_outputs(outputs) == Join(<<" ">>, outputs)

\* the client, the model info and the chunk size
ResolveBudget ==
    /\ pc = "start"
    /\ nclients' = nclients + 1
    /\ IF chunk_size_arg # None /\ chunk_size_arg # <<>>
       THEN IF Lower(chunk_size_arg) = Auto
            THEN /\ chunk_size' = get_optimal_chunk_size(model_name, window)
                 /\ pc' = "estimate"
                 /\ UNCHANGED validation
            ELSE LET parsed == parse_chunk_size(chunk_size_arg)
                 IN IF ~parsed.ok
                    THEN /\ pc' = "raised"
                         /\ UNCHANGED <<chunk_size, validation>>
                    ELSE /\ chunk_size' = parsed.value
                         /\ validation' = validate_chunk_size(parsed.value, model_name,
                                                              window)
                         /\ pc' = IF validation'.ok THEN "estimate" ELSE "rejected"
       ELSE /\ chunk_size' = DefaultChunkSize
            /\ pc' = "estimate"
            /\ UNCHANGED validation
    /\ UNCHANGED <<mode, doc, chunk_size_arg, additional_instructions,
                   model_name, window, chunks, parallel, max_workers, pool,
                   task, submits, resp, clientOf, results, collected, writes,
                   calls, output, corrected_doc, pending_lines, para_index,
                   styled_from, artifact, para, pieces, tagged, decoded>>

\* the cost estimate and the question it asks
EstimateCost ==
    /\ pc = "estimate"
    /\ \E estimate_cost \in BOOLEAN, response \in {<<"y">>, <<"Y">>, <<"n">>} :
         pc' = IF estimate_cost /\ Lower(response) # <<"y">> THEN "cancelled" ELSE "chunking"
    /\ UNCHANGED <<mode, doc, chunk_size_arg, additional_instructions,
                   model_name, window, chunk_size, validation, chunks,
                   parallel, max_workers, pool, task, submits, resp, clientOf,
                   nclients, results, collected, writes, calls, output,
                   corrected_doc, pending_lines, para_index, styled_from,
                   artifact, para, pieces, tagged, decoded>>

\* docx_to_chunks, then the choice of the parallel or the sequential path
SplitDocument ==
    /\ pc = "chunking"
    /\ \E parallel_ \in BOOLEAN, max_workers_ \in 1..MaxWorkers :
         LET cs == IF mode = "report" THEN docx_to_chunks(doc, chunk_size)
                   ELSE docx_to_chunks_inline(doc, chunk_size)
             n == Len(cs)
         IN /\ chunks' = cs
            /\ task' = [i \in 1..n |-> "none"]
            /\ resp' = [i \in 1..n |-> [ok |-> FALSE, text |-> None, chunk |-> None,
                                         messages |-> <<>>]]
            /\ clientOf' = [i \in 1..n |-> 0]
            /\ writes' = [i \in 1..n |-> 0]
            /\ submits' = [i \in 1..n |-> 0]
            /\ parallel' = parallel_
            /\ max_workers' = max_workers_
            /\ IF UseExecutor(parallel_, n)
               THEN /\ results' = [i \in 1..n |-> None]
                    /\ pool' = PoolSize(max_workers_, n)
                    /\ pc' = "submitting"
               ELSE /\ results' = <<>>
                    /\ pool' = 0
                    /\ pc' = "sequential"
    /\ UNCHANGED <<mode, doc, chunk_size_arg, additional_instructions,
                   model_name, window, chunk_size, validation, nclients,
                   collected, calls, output, corrected_doc, pending_lines,
                   para_index, styled_from, artifact, para, pieces, tagged,
                   decoded>>

\* executor.submit for the next index, with a client of its own
Submit ==
    /\ pc = "submitting"
    /\ LET i == CHOOSE k \in Indices : task[k] = "none" /\ \A j \in 1..(k - 1) : task[j] # "none"
       IN /\ task' = [task EXCEPT ![i] = "queued"]
          /\ submits' = [submits EXCEPT ![i] = @ + 1]
          /\ nclients' = nclients + 1
          /\ clientOf' = [clientOf EXCEPT ![i] = TaskClient(nclients)]
          /\ pc' = IF i = Len(chunks) THEN "collecting" ELSE "submitting"
    /\ UNCHANGED <<mode, doc, chunk_size_arg, additional_instructions,
                   model_name, window, chunk_size, validation, chunks,
                   parallel, max_workers, pool, resp, results, collected,
                   writes, calls, output, corrected_doc, pending_lines,
                   para_index, styled_from, artifact, para, pieces, tagged,
                   decoded>>

\* a worker thread takes the oldest work item and calls create_completion
StartTask(i) ==
    /\ pc \in {"submitting", "collecting"}
    /\ task[i] = "queued"
    /\ \A j \in 1..(i - 1) : task[j] # "queued"
    /\ Cardinality({j \in Indices : task[j] = "running"}) < pool
    /\ task' = [task EXCEPT ![i] = "running"]
    /\ resp' = [resp EXCEPT ![i].chunk = chunks[i],
                             ![i].messages = TaskMessages(mode, chunks[i],
                                                          additional_instructions)]
    /\ calls' = calls + 1
    /\ UNCHANGED <<pc, mode, doc, chunk_size_arg, additional_instructions,
                   model_name, window, chunk_size, validation, chunks,
                   parallel, max_workers, pool, submits, clientOf, nclients,
                   results, collected, writes, output, corrected_doc,
                   pending_lines, para_index, styled_from, artifact, para,
                   pieces, tagged, decoded>>

\* create_completion returns
TaskReturns(i) ==
    /\ pc \in {"submitting", "collecting"}
    /\ task[i] = "running"
    /\ \E text \in Completions :
         resp' = [resp EXCEPT ![i].ok = TRUE, ![i].text = text]
    /\ task' = [task EXCEPT ![i] = "ok"]
    /\ UNCHANGED <<pc, mode, doc, chunk_size_arg, additional_instructions,
                   model_name, window, chunk_size, validation, chunks,
                   parallel, max_workers, pool, submits, clientOf, nclients,
                   results, collected, writes, calls, output, corrected_doc,
                   pending_lines, para_index, styled_from, artifact, para,
                   pieces, tagged, decoded>>

\* create_completion raises
TaskRaises(i) ==
    /\ pc \in {"submitting", "collecting"}
    /\ task[i] = "running"
    /\ \E exc \in Causes :
         resp' = [resp EXCEPT ![i].ok = FALSE, ![i].text = exc]
    /\ task' = [task EXCEPT ![i] = "failed"]
    /\ UNCHANGED <<pc, mode, doc, chunk_size_arg, additional_instructions,
                   model_name, window, chunk_size, validation, chunks,
                   parallel, max_workers, pool, submits, clientOf, nclients,
                   results, collected, writes, calls, output, corrected_doc,
                   pending_lines, para_index, styled_from, artifact, para,
                   pieces, tagged, decoded>>

\* as_completed yields the future of task i: its result or the fallback fills a slot
Collect(i) ==
    /\ pc = "collecting"
    /\ task[i] \in {"ok", "failed"}
    /\ \A k \in 1..Len(collected) : collected[k] # i
    /\ LET index == SlotOf(i, collected)
       IN /\ results' = [results EXCEPT ![index] =
                           IF task[i] = "ok" THEN TaskResult(mode, resp[i].text)
                           ELSE Fallback(mode, index, resp[i].text, chunks)]
          /\ writes' = [writes EXCEPT ![index] = @ + 1]
    /\ collected' = Append(collected, i)
    /\ UNCHANGED <<pc, mode, doc, chunk_size_arg, additional_instructions,
                   model_name, window, chunk_size, validation, chunks,
                   parallel, max_workers, pool, task, submits, resp, clientOf,
                   nclients, calls, output, corrected_doc, pending_lines,
                   para_index, styled_from, artifact, para, pieces, tagged,
                   decoded>>

\* the sequential path calls create_completion for the next index with the one client
SequentialCall ==
    /\ pc = "sequential"
    /\ Len(results) < Len(chunks)
    /\ LET i == Len(results) + 1
       IN /\ task[i] = "none"
          /\ task' = [task EXCEPT ![i] = "running"]
          /\ resp' = [resp EXCEPT ![i].chunk = chunks[i],
                                   ![i].messages = TaskMessages(mode, chunks[i],
                                                                additional_instructions)]
          /\ clientOf' = [clientOf EXCEPT ![i] = FirstClient]
    /\ calls' = calls + 1
    /\ UNCHANGED <<pc, mode, doc, chunk_size_arg, additional_instructions,
                   model_name, window, chunk_size, validation, chunks,
                   parallel, max_workers, pool, submits, nclients, results,
                   collected, writes, output, corrected_doc, pending_lines,
                   para_index, styled_from, artifact, para, pieces, tagged,
                   decoded>>

\* the call of the sequential path returns: its result is appended
SequentialReturns ==
    /\ pc = "sequential"
    /\ Len(results) < Len(chunks)
    /\ LET i == Len(results) + 1
       IN /\ task[i] = "running"
          /\ \E text \in Completions :
               /\ resp' = [resp EXCEPT ![i].ok = TRUE, ![i].text = text]
               /\ results' = Append(results, TaskResult(mode, text))
          /\ task' = [task EXCEPT ![i] = "ok"]
          /\ writes' = [writes EXCEPT ![i] = @ + 1]
    /\ UNCHANGED <<pc, mode, doc, chunk_size_arg, additional_instructions,
                   model_name, window, chunk_size, validation, chunks,
                   parallel, max_workers, pool, submits, clientOf, nclients,
                   collected, calls, output, corrected_doc, pending_lines,
                   para_index, styled_from, artifact, para, pieces, tagged,
                   decoded>>

\* the call of the sequential path raises: nothing catches the exception
SequentialRaises ==
    /\ pc = "sequential"
    /\ Len(results) < Len(chunks)
    /\ LET i == Len(results) + 1
       IN /\ task[i] = "running"
          /\ \E exc \in Causes :
               resp' = [resp EXCEPT ![i].ok = FALSE, ![i].text = exc]
          /\ task' = [task EXCEPT ![i] = "failed"]
    /\ pc' = "raised"
    /\ UNCHANGED <<mode, doc, chunk_size_arg, additional_instructions,
                   model_name, window, chunk_size, validation, chunks,
                   parallel, max_workers, pool, submits, clientOf, nclients,
                   results, collected, writes, calls, output, corrected_doc,
                   pending_lines, para_index, styled_from, artifact, para,
                   pieces, tagged, decoded>>

\* every slot is due: aggregate_outputs, or create_corrected_document_from_chunks
Aggregate ==
    /\ \/ pc = "collecting" /\ Len(collected) = Len(chunks)
       \/ pc = "sequential" /\ Len(results) = Len(chunks)
    /\ IF mode = "report"
       THEN IF \E i \in 1..Len(results) : results[i] = None
            THEN /\ pc' = "raised"
                 /\ UNCHANGED <<output, corrected_doc>>
            ELSE /\ output' = aggregate_outputs(results)
                 /\ pc' = "save"
                 /\ UNCHANGED corrected_doc
       ELSE /\ corrected_doc' = create_corrected_document_from_chunks(doc, chunks, results).paras
            /\ pc' = "save"
            /\ UNCHANGED output
    /\ UNCHANGED <<mode, doc, chunk_size_arg, additional_instructions,
                   model_name, window, chunk_size, validation, chunks,
                   parallel, max_workers, pool, task, submits, resp, clientOf,
                   nclients, results, collected, writes, calls, pending_lines,
                   para_index, styled_from, artifact, para, pieces, tagged,
                   decoded>>

\* export_proofreads when save_outputs is set; corrected_doc.save
Save ==
    /\ pc = "save"
    /\ \E save_outputs \in BOOLEAN :
         artifact' = IF mode = "inline" THEN "docx"
                     ELSE IF save_outputs THEN "txt" ELSE "none"
    /\ pc' = "done"
    /\ UNCHANGED <<mode, doc, chunk_size_arg, additional_instructions,
                   model_name, window, chunk_size, validation, chunks,
                   parallel, max_workers, pool, task, submits, resp, clientOf,
                   nclients, results, collected, writes, calls, output,
                   corrected_doc, pending_lines, para_index, styled_from, para,
                   pieces, tagged, decoded>>

Next ==
    \/ ResolveBudget
    \/ EstimateCost
    \/ SplitDocument
    \/ Submit
    \/ \E i \in Indices : StartTask(i)
    \/ \E i \in Indices : TaskReturns(i)
    \/ \E i \in Indices : TaskRaises(i)
    \/ \E i \in Indices : Collect(i)
    \/ SequentialCall
    \/ SequentialReturns
    \/ SequentialRaises
    \/ Aggregate
    \/ Save

Spec == Init /\ [][Next]_vars

\* SpecRequest: the same run, called with and without additional instructions
\* and a budget that splits the long paragraphs
InitRequest ==
    /\ pc = "start"
    /\ mode \in {"report", "inline"}
    /\ doc \in SeqsUpTo(PipeParas, MaxParas)
    /\ chunk_size_arg = <<"1", "0", "0", "1", "c">>
    /\ additional_instructions \in Instructions
    /\ model_name = Gpt5Mini
    /\ window = ContextWindow(model_name)
    /\ chunk_size = 0
    /\ para = <<>>
    /\ Fresh

SpecRequest == InitRequest /\ [][Next]_vars

\* SpecLive: the run with a budget that splits the long paragraphs, where the
\* executor block makes progress and every completion call comes back
InitLive ==
    /\ pc = "start"
    /\ mode \in {"report", "inline"}
    /\ doc \in SeqsUpTo(PipeParas, MaxParas)
    /\ chunk_size_arg = <<"1", "0", "0", "1", "c">>
    /\ additional_instructions = <<>>
    /\ model_name = Gpt4
    /\ window = ContextWindow(model_name)
    /\ chunk_size = 0
    /\ para = <<>>
    /\ Fresh

\* the steps of the executor block: the submit loop goes on, a free worker
\* thread takes the oldest queued task, as_completed yields a future that is done
DispatchStep ==
    \/ Submit
    \/ \E i \in Indices : StartTask(i)
    \/ \E i \in Indices : Collect(i)

\* a completion call in flight comes back: it returns or it raises
CallEnds == \E i \in Indices : TaskReturns(i) \/ TaskRaises(i)

Fairness == WF_vars(DispatchStep) /\ WF_vars(CallEnds)

SpecLive == InitLive /\ [][Next]_vars /\ Fairness

-----------------------------------------------------------------------------
(* Properties *)

Concurrent == pool > 0

Dispatched == pc \in {"save", "done"}

Failed == {i \in DOMAIN task : task[i] = "failed"}

\* the encoded document text: every paragraph's encoding and separator, in order
FullText(d) == Concat([k \in 1..Len(d) |-> EncodeRuns(d[k].runs) \o Sep])

\* the encoded paragraphs a+1..b of d, each with its separator
ParaSpan(d, a, b) == Concat([k \in 1..(b - a) |-> EncodeRuns(d[a + k].runs) \o Sep])

\* chs are spans of one or more whole paragraphs of d that follow paragraph a
\* and use up the document
RECURSIVE WholeParagraphs(_, _, _)
WholeParagraphs(chs, d, a) ==
    IF chs = <<>> THEN a = Len(d)
    ELSE \E b \in (a + 1)..Len(d) :
            /\ Head(chs) = ParaSpan(d, a, b)
            /\ WholeParagraphs(Tail(chs), d, b)

IsPlain(run) == ~run.bold /\ ~run.italic

\* neighbouring runs that are neither bold nor italic become one run
RECURSIVE MergePlain(_)
MergePlain(runs) ==
    IF Len(runs) < 2 THEN runs
    ELSE IF IsPlain(runs[1]) /\ IsPlain(runs[2])
    THEN MergePlain(<<Run(runs[1].text \o runs[2].text, FALSE, FALSE)>>
                    \o SubSeq(runs, 3, Len(runs)))
    ELSE <<runs[1]>> \o MergePlain(Tail(runs))

IsBlank(text) == \A k \in 1..Len(text) : IsSpace(text[k])

DropEmpty(runs) == SelectSeq(runs, LAMBDA r : r.text # <<>>)

DropBlank(runs) == SelectSeq(runs, LAMBDA r : ~IsBlank(r.text))

HasTagChar(runs) == \E k \in 1..Len(runs) : \E j \in 1..Len(runs[k].text) : runs[k].text[j] = "<"

\* C1: in concurrent dispatch, whatever the order in which the calls finish, the
\* results have the length of the chunks and slot i holds the outcome of the
\* completion call made for chunks[i].
C1_ResultsInChunkOrder ==
    (Concurrent /\ Dispatched) =>
        /\ Len(results) = Len(chunks)
        /\ \A i \in Indices :
              /\ resp[i].chunk = chunks[i]
              /\ results[i] = IF resp[i].ok THEN TaskResult(mode, resp[i].text)
                              ELSE Fallback(mode, i, resp[i].text, chunks)

\* a concurrent run whose futures completed last-first and whose outcomes differ
C1_Witness ==
    /\ Concurrent
    /\ pc = "done"
    /\ Len(chunks) = 3
    /\ collected = <<3, 2, 1>>
    /\ resp[1].text # resp[3].text

\* C2: in concurrent dispatch with exactly one failing call, every other slot
\* holds its chunk's own result and the failing slot holds the fallback: the
\* error text with the chunk's number and the cause (report mode), the chunk's
\* original text (inline-edit mode).
C2_OneFailureIsolated ==
    (Concurrent /\ Dispatched /\ Cardinality(Failed) = 1) =>
        \A i \in Indices :
            IF i \in Failed
            THEN results[i] = IF mode = "report"
                              THEN ErrorPrefix \o IntToStr(i) \o <<":", " ">> \o resp[i].text
                              ELSE chunks[i]
            ELSE /\ resp[i].ok
                 /\ results[i] = IF mode = "report" /\ resp[i].text = Sentinel
                                 THEN <<>> ELSE resp[i].text

\* a concurrent report run in which the second of three calls failed
C2_Witness ==
    /\ Concurrent
    /\ pc = "done"
    /\ mode = "report"
    /\ Len(chunks) = 3
    /\ Failed = {2}

\* C3: in every dispatch mode a failing completion call does not abort the
\* batch: the run does not end in the exception.
C3_FailureNeverAborts == Failed # {} => pc # "raised"

BudgetGiven == chunk_size_arg # None /\ chunk_size_arg # <<>> /\ Lower(chunk_size_arg) # Auto

\* the budget string does not parse, or the budget is at most 1000 or more than
\* 1.5 times the optimum of the model
BadBudget ==
    /\ BudgetGiven
    /\ LET parsed == parse_chunk_size(chunk_size_arg)
           optimal == get_optimal_chunk_size(model_name, ContextWindow(model_name))
       IN \/ ~parsed.ok
          \/ parsed.value <= 1000
          \/ 2 * parsed.value > 3 * optimal

\* C4: a run whose budget string does not parse or whose budget validation
\* rejects makes no completion call, writes no artifact and never chunks.
C4_BadBudgetStopsBeforeDispatch ==
    BadBudget =>
        /\ calls = 0
        /\ artifact = NoFile
        /\ chunks = <<>>
        /\ pc \in {"start", "raised", "rejected"}

\* a run ended by the rejection of a budget above 1.5 times the optimum
C4_Witness ==
    /\ pc = "rejected"
    /\ chunk_size > 1000
    /\ calls = 0

\* C5: the chunks of docx_to_chunks, concatenated in order, are the encoded
\* document text.
C5_ChunksConcatenateToDocument ==
    pc \in {"chunked", "reassembled"} => Concat(chunks) = FullText(doc)

\* a three-paragraph document cut into two chunks
C5_Witness ==
    /\ pc = "chunked"
    /\ Len(doc) = 3
    /\ Len(chunks) = 2

\* C6: every chunk is one or more whole encoded paragraphs, each ended by the
\* separator, so a chunk ends only where a paragraph ends.
C6_ChunksAreWholeParagraphs ==
    pc \in {"chunked", "reassembled"} => WholeParagraphs(chunks, doc, 0)

\* two chunks, the first of which holds two paragraphs
C6_Witness ==
    /\ pc = "chunked"
    /\ mode = "report"
    /\ Len(chunks) = 2
    /\ Len(doc) = 3
    /\ chunks[1] = ParaSpan(doc, 0, 2)

\* C7 as stated: decoding the encoded runs gives the runs back, the empty
\* runs dropped.
C7_RoundTripDropsEmptyRuns ==
    pc = "decoded" => decoded = DropEmpty(para)

\* C7 as the code has it: for run texts without "<", decoding the encoded runs
\* gives the runs back with neighbouring unformatted runs merged into one and
\* the runs whose text is empty or only whitespace dropped.
C7_RoundTripCanonical ==
    (pc = "decoded" /\ ~HasTagChar(para)) => decoded = DropBlank(MergePlain(para))

\* a bold-and-italic run and an italic run came back as they were
C7_Witness ==
    /\ pc = "decoded"
    /\ para = <<Run(<<"a">>, TRUE, TRUE), Run(<<"a">>, FALSE, TRUE)>>
    /\ decoded = para

\* C8: with completions that echo their chunks, the k-th original paragraph's
\* runs reappear in the k-th rebuilt paragraph, bold and italic as they were.
C8_EchoKeepsParagraphRuns ==
    pc = "reassembled" =>
        \A k \in 1..Len(doc) :
            DropBlank(MergePlain(doc[k].runs)) # <<>> =>
                /\ k <= Len(corrected_doc)
                /\ corrected_doc[k].runs = DropBlank(MergePlain(doc[k].runs))

\* the budget holds the whole encoded text of a three-paragraph document
OneChunkCase ==
    /\ mode = "report"
    /\ Dispatched
    /\ Len(doc) = 3
    /\ StrLen(FullText(doc)) <= chunk_size

\* C9 as stated: a three-paragraph document within the budget is one chunk, and
\* the completion "No issues were found." gives the empty report.
C9_NoIssuesTextGivesEmptyReport ==
    OneChunkCase =>
        /\ Len(chunks) = 1
        /\ (resp[1].ok /\ resp[1].text = NoIssuesText) => output = <<>>

\* C9 as the code has it: a three-paragraph document within the budget is one
\* chunk, and the completion "No errors were found." gives the empty report.
C9_NoErrorsTextGivesEmptyReport ==
    OneChunkCase =>
        /\ Len(chunks) = 1
        /\ (resp[1].ok /\ resp[1].text = Sentinel) => output = <<>>

\* the one chunk of three long paragraphs was answered with the sentinel
C9_Witness ==
    /\ OneChunkCase
    /\ pc = "done"
    /\ doc[1].runs = <<Run(<<"X">>, FALSE, FALSE)>>
    /\ resp[1].ok
    /\ resp[1].text = Sentinel

AllSentinel == \A i \in Indices : resp[i].ok /\ resp[i].text = Sentinel

\* C10 as stated: when every completion is the sentinel the report is empty,
\* for any number of chunks.
C10_AllSentinelGivesEmptyReport ==
    (mode = "report" /\ Dispatched /\ AllSentinel) => output = <<>>

\* C10 as the code has it: when every completion is the sentinel every slot is
\* the empty string and the report is only the single spaces that separate
\* the slots, one fewer than the chunks; it is empty for at most one chunk.
C10_AllSentinelGivesOnlySeparators ==
    (mode = "report" /\ Dispatched /\ AllSentinel) =>
        /\ \A i \in Indices : results[i] = <<>>
        /\ output = [k \in 1..(IF Len(chunks) = 0 THEN 0 ELSE Len(chunks) - 1) |-> " "]

\* three chunks, all answered with the sentinel
C10_Witness ==
    /\ mode = "report"
    /\ pc = "done"
    /\ Len(chunks) = 3
    /\ AllSentinel

\* the chunk indices whose completion call has been made
Called == {i \in DOMAIN task : task[i] \in {"running", "ok", "failed"}}

SystemPromptOf(m) ==
    IF m = "report" THEN DEFAULT_SYSTEM_PROMPT ELSE DIRECT_EDIT_SYSTEM_PROMPT

\* the number of messages of a request without additional instructions
BaseMessages(m) == IF m = "report" THEN 3 ELSE 2

\* C11: every completion request starts with the system prompt and ends with
\* the chunk text of its index; non-empty additional instructions are one more
\* user message that contains them and stands before the chunk text, in the
\* request of every chunk on the sequential and the concurrent path alike;
\* empty instructions add no message; a dispatch that returned made a request
\* for every chunk.
C11_RequestCarriesInstructions ==
    /\ \A i \in Called :
         LET messages == resp[i].messages
             n == Len(messages)
         IN /\ n >= 2
            /\ messages[1] = Message("system", SystemPromptOf(mode))
            /\ messages[n] = Message("user", chunks[i])
            /\ IF additional_instructions # <<>>
               THEN /\ n = BaseMessages(mode) + 1
                    /\ messages[n - 1].role = "user"
                    /\ Contains(messages[n - 1].content, additional_instructions)
               ELSE /\ n = BaseMessages(mode)
                    /\ \A k \in 1..n : messages[k].content # <<>>
    /\ Dispatched => Called = Indices

\* the third task of a concurrent inline run has sent its request with the instructions
C11_Witness ==
    /\ additional_instructions # <<>>
    /\ Len(chunks) = 3
    /\ task[3] = "running"
    /\ Len(resp[3].messages) = BaseMessages(mode) + 1
    /\ mode = "inline"
    /\ Concurrent

\* C12 as stated: docx_to_chunks called with a budget of zero or less does not
\* return chunks (it fails instead).
C12_NonPositiveBudgetFails ==
    chunk_size <= 0 => pc \notin {"chunked", "reassembled"}

BudgetResolved == pc \in {"resolved", "validated"}

IsAutoArg == Lower(chunk_size_arg) = Auto

\* the number N of an argument of the form NNNw or NNNc
ArgNumber == StrToInt(SubSeq(chunk_size_arg, 1, Len(chunk_size_arg) - 1))

ArgUnit == Lower(chunk_size_arg)[Len(chunk_size_arg)]

\* C13 as stated: every budget resolved from words:N, chars:N or auto is a
\* positive integer, for any N and any context window.
C13_ResolvedBudgetPositive == BudgetResolved => chunk_size > 0

\* C13 as the code has it: a resolved budget is never negative; a words:N or
\* chars:N budget is positive exactly when N is at least 1, and an auto
\* budget exactly when the context window is at least 4 tokens.
C13_ResolvedBudgetNotNegative ==
    BudgetResolved =>
        /\ chunk_size >= 0
        /\ chunk_size > 0 <=> IF IsAutoArg THEN window >= 4 ELSE ArgNumber >= 1

\* 1w resolved to 5 characters
C13_Witness ==
    /\ BudgetResolved
    /\ chunk_size_arg = <<"1", "w">>
    /\ chunk_size = 5

\* C14 as stated: words:N resolves to round(N * 5.5), chars:N to N.
C14_WordsRounded ==
    (BudgetResolved /\ ~IsAutoArg) =>
        chunk_size = IF ArgUnit = "w" THEN WordsToCharsRounded(ArgNumber) ELSE ArgNumber

\* C14 as the code has it: words:N resolves to N * 5.5 with the fraction cut
\* off (11 * N div 2), chars:N to N; 5000w resolves to 27500 and 30000c to 30000.
C14_WordsTruncated ==
    (BudgetResolved /\ ~IsAutoArg) =>
        /\ ArgUnit = "w" => /\ 2 * chunk_size <= 11 * ArgNumber
                            /\ 11 * ArgNumber < 2 * (chunk_size + 1)
        /\ ArgUnit = "c" => chunk_size = ArgNumber
        /\ chunk_size_arg = <<"5", "0", "0", "0", "w">> => chunk_size = 27500
        /\ chunk_size_arg = <<"3", "0", "0", "0", "0", "c">> => chunk_size = 30000

\* 5w resolved: 27.5 characters come out as 27
C14_Witness ==
    /\ BudgetResolved
    /\ chunk_size_arg = <<"5", "w">>
    /\ chunk_size = 27

\* the optimal budget validate_chunk_size compares to
OptimalBudget == get_optimal_chunk_size(model_name, window)

\* C15: validate_chunk_size answers ok = false exactly when the budget is at
\* most 1000 or above 1.5 times the optimal budget; ok = true with a non-empty
\* warning exactly when the budget is above 1000, above the optimal budget and
\* at most 1.5 times it; and ok = true with an empty message otherwise.
C15_ValidationCases ==
    pc = "validated" =>
        LET too_small == chunk_size <= 1000
            too_large == 2 * chunk_size > 3 * OptimalBudget
            large == chunk_size > 1000 /\ chunk_size > OptimalBudget /\ ~too_large
        IN /\ ~validation.ok <=> (too_small \/ too_large)
           /\ (validation.ok /\ validation.msg # <<>>) <=> large
           /\ (~too_small /\ ~too_large /\ ~large) =>
                 (validation.ok /\ validation.msg = <<>>)

\* a budget of exactly 1.5 times the optimal 1200 is accepted with a warning
C15_Witness ==
    /\ pc = "validated"
    /\ OptimalBudget = 1200
    /\ chunk_size = 1800
    /\ validation.ok
    /\ validation.msg # <<>>

\* the lines of the corrected chunks that are not blank, in order
FoundLines ==
    SelectSeq(CorrectedLines(chunks, results), LAMBDA line : Strip(line) # <<>>)

\* the texts of the paragraphs that have any, paragraph by paragraph
ContentOf(paras) ==
    LET texts == [k \in 1..Len(paras) |->
                    Concat([r \in 1..Len(paras[k].runs) |-> paras[k].runs[r].text])]
    IN SelectSeq(texts, LAMBDA text : Strip(text) # <<>>)

\* C16 as stated: when the corrected chunks hold another number of paragraphs
\* than the original document, the rebuilt document has the original content.
C16_MismatchFallsBackToOriginal ==
    (pc = "rebuilt" /\ Len(FoundLines) # Len(doc)) =>
        ContentOf(corrected_doc) = ContentOf(doc)

\* C16 as the code has it: every non-blank corrected line becomes one rebuilt
\* paragraph, in order, with the runs decoded from the line; the first
\* len(original paragraphs) of them take the style of the original paragraph
\* at their position and the lines beyond get no inherited style; with fewer
\* lines the rebuilt document is shorter.  Original content is never put back.
C16_MismatchContinuesUnstyled ==
    pc = "rebuilt" =>
        /\ Len(corrected_doc) = Len(FoundLines)
        /\ \A k \in 1..Len(corrected_doc) :
             /\ corrected_doc[k].runs = apply_formatted_text_to_paragraph(FoundLines[k])
             /\ corrected_doc[k].style =
                  IF k <= Len(doc) THEN doc[k].style ELSE DefaultStyle

\* a one-paragraph heading answered with two lines: the second rebuilt
\* paragraph is the surplus line, without the heading's style
C16_Witness ==
    /\ pc = "rebuilt"
    /\ Len(doc) = 1
    /\ doc[1].style = "Heading 1"
    /\ Len(corrected_doc) = 2
    /\ corrected_doc[2] = [style |-> DefaultStyle, runs |-> <<Run(<<"b">>, FALSE, FALSE)>>]

\* the chunk indices whose completion call is in flight
InFlight == {i \in DOMAIN task : task[i] = "running"}

\* executor.submit has been called for every index
AllSubmitted == Concurrent /\ pc \in {"collecting", "save", "done", "raised"}

\* C17: at every moment of a concurrent dispatch at most min(max_workers,
\* number of chunks) completion calls are in flight, no chunk is submitted more
\* than once, and once the submit loop is over every chunk was submitted
\* exactly once.
C17_InFlightBounded ==
    Concurrent =>
        /\ Cardinality(InFlight) <=
             (IF max_workers < Len(chunks) THEN max_workers ELSE Len(chunks))
        /\ \A i \in Indices : submits[i] <= 1
        /\ AllSubmitted => \A i \in Indices : submits[i] = 1

\* three chunks on two workers: two calls in flight, the third task waits
C17_Witness ==
    /\ Concurrent
    /\ max_workers = 2
    /\ Len(chunks) = 3
    /\ InFlight = {1, 2}
    /\ task[3] = "queued"

\* the client instances the calls made so far have used
UsedClients == {clientOf[i] : i \in Called}

\* C18: in a concurrent dispatch every task has a client instance of its own,
\* different from every other task's and from the instance the model info was
\* read from; in a sequential dispatch every call uses that one first instance
\* and no other instance is created.
C18_ClientPerTask ==
    /\ Concurrent =>
         /\ \A i \in Indices : task[i] # "none" =>
              /\ clientOf[i] # 0
              /\ clientOf[i] # 1
              /\ clientOf[i] <= nclients
              /\ \A j \in Indices : (j # i /\ task[j] # "none") => clientOf[j] # clientOf[i]
         /\ nclients <= 1 + Len(chunks)
    /\ ~Concurrent =>
         /\ UsedClients \subseteq {1}
         /\ nclients <= 1

\* a concurrent run of three tasks is over: each used an instance of its own
C18_Witness ==
    /\ Concurrent
    /\ Dispatched
    /\ clientOf = <<2, 3, 4>>
    /\ nclients = 4

\* C19: with no chunk or one chunk, or with parallel off, the completion calls
\* are made one after the other in index order: at most one call is in flight,
\* the call of an index starts only when the calls of all lower indices have
\* returned, and without chunks no call is made.
C19_SequentialInOrder ==
    (Len(chunks) <= 1 \/ ~parallel) =>
        /\ Cardinality(InFlight) <= 1
        /\ \A i \in Called : \A j \in 1..(i - 1) : task[j] = "ok"
        /\ calls = Cardinality(Called)
        /\ Len(chunks) = 0 => calls = 0

\* parallel off, three chunks: the third call is in flight after two returned
C19_Witness ==
    /\ pc = "sequential"
    /\ ~parallel
    /\ Len(chunks) = 3
    /\ task = <<"ok", "ok", "running">>
    /\ calls = 3

\* what the task of index i came to: its result or the fallback of its index
OutcomeOf(i) ==
    IF task[i] = "ok" THEN TaskResult(mode, resp[i].text)
    ELSE Fallback(mode, i, resp[i].text, chunks)

\* C20: in a concurrent dispatch no result slot is assigned twice, an assigned
\* slot holds the outcome of the task with the slot's index, a slot not yet
\* assigned is unset, and when every future has been collected every slot has
\* been assigned once.
C20_SlotWrittenOnce ==
    Concurrent =>
        \A i \in Indices :
            /\ writes[i] <= 1
            /\ writes[i] = 1 => (task[i] \in {"ok", "failed"} /\ results[i] = OutcomeOf(i))
            /\ writes[i] = 0 => results[i] = None
            /\ Len(collected) = Len(chunks) => writes[i] = 1

\* three futures collected last-submitted first, one of them failed
C20_Witness ==
    /\ Concurrent
    /\ pc = "collecting"
    /\ collected = <<3, 1, 2>>
    /\ task[1] = "failed"
    /\ \A i \in Indices : writes[i] = 1

\* the executor block is over: every future was yielded, every task returned
\* or raised, and every slot holds that task's outcome
AllOutcomesIn ==
    /\ Concurrent
    /\ Len(collected) = Len(chunks)
    /\ \A i \in Indices :
         /\ task[i] \in {"ok", "failed"}
         /\ results[i] # None
         /\ results[i] = OutcomeOf(i)

\* C21: when every completion call returns or raises, a concurrent dispatch
\* that has begun submitting comes to its end with an outcome for every
\* chunk: every submitted task runs until it returned or raised, also when
\* other tasks raised.
C21_ConcurrentDispatchReturns == (pc = "submitting") ~> AllOutcomesIn

\* the first of three tasks raised, the other two still returned
C21_Witness ==
    /\ AllOutcomesIn
    /\ Len(chunks) = 3
    /\ task = <<"failed", "ok", "ok">>

\* the number of paragraphs of d that the first, the first two, ... chunks of
\* chs hold together, chs being spans of whole paragraphs that follow paragraph a
RECURSIVE ChunkEnds(_, _, _)
ChunkEnds(chs, d, a) ==
    IF chs = <<>> THEN <<>>
    ELSE LET b == CHOOSE e \in (a + 1)..Len(d) : Head(chs) = ParaSpan(d, a, e)
         IN <<b>> \o ChunkEnds(Tail(chs), d, b)

\* C22 as stated: every chunk but possibly the last is longer than the budget,
\* every chunk is no longer than the budget once its last paragraph is
\* removed, a paragraph longer than the budget ends the chunk it is in, and
\* the chunks end with the last paragraph of the document.
C22_FlushOnlyAboveBudget ==
    pc = "chunked" =>
        LET ends == ChunkEnds(chunks, doc, 0)
            n == Len(chunks)
        IN /\ \A k \in 1..n :
                LET a == IF k = 1 THEN 0 ELSE ends[k - 1]
                IN /\ k < n => StrLen(chunks[k]) > chunk_size
                   /\ StrLen(ParaSpan(doc, a, ends[k] - 1)) <= chunk_size
           /\ \A j \in 1..Len(doc) :
                StrLen(ParaSpan(doc, j - 1, j)) > chunk_size =>
                    \E k \in 1..n : ends[k] = j
           /\ n > 0 => ends[n] = Len(doc)

\* C22 for the budgets that are not negative, where it holds
C22_FlushRuleFromZero == chunk_size >= 0 => C22_FlushOnlyAboveBudget

IsTagPiece(p) == p \in {TagB, TagI, TagEndB, TagEndI}

\* the flags after a tag: <b> and <i> set theirs, </b> and </i> clear theirs
BoldAfter(p, bold) == IF p = TagB THEN TRUE ELSE IF p = TagEndB THEN FALSE ELSE bold

ItalicAfter(p, italic) == IF p = TagI THEN TRUE ELSE IF p = TagEndI THEN FALSE ELSE italic

\* the run of a text segment under the flags: none when the segment is blank
SegmentRun(segment, bold, italic) ==
    IF Strip(segment) = <<>> THEN <<>> ELSE <<Run(segment, bold, italic)>>

\* the runs of a line read piece by piece: a tag ends the text segment before
\* it and sets its flags whatever they were, the texts between two tags are
\* one segment
RECURSIVE RunsOfPieces(_, _, _, _)
RunsOfPieces(ps, bold, italic, segment) ==
    IF ps = <<>> THEN SegmentRun(segment, bold, italic)
    ELSE IF IsTagPiece(Head(ps))
    THEN SegmentRun(segment, bold, italic)
         \o RunsOfPieces(Tail(ps), BoldAfter(Head(ps), bold),
                         ItalicAfter(Head(ps), italic), <<>>)
    ELSE RunsOfPieces(Tail(ps), bold, italic, segment \o Head(ps))

\* C23: decoding gives runs for every line, also one with unmatched closing
\* tags or tags out of order: each tag sets the bold and italic flags to its
\* own values regardless of the flags before it, every run has the flags that
\* are current where its text stands, and a text segment that is empty or
\* only whitespace gives no run.
C23_DecodeTotal ==
    pc = "runs" =>
        /\ decoded = RunsOfPieces(pieces, FALSE, FALSE, <<>>)
        /\ \A k \in 1..Len(decoded) :
             /\ Strip(decoded[k].text) # <<>>
             /\ decoded[k].bold \in BOOLEAN
             /\ decoded[k].italic \in BOOLEAN

\* a closing tag without its opening tag, then an opening tag never closed
C23_Witness ==
    /\ pc = "runs"
    /\ pieces = <<TagEndB, <<"a">>, TagI, <<"a">>>>
    /\ decoded = <<Run(<<"a">>, FALSE, FALSE), Run(<<"a">>, FALSE, TRUE)>>

\* how many of the rebuilt paragraphs were given the style of an original one
StyledCount(from) == Cardinality({k \in 1..Len(from) : from[k] # 0})

\* C24: in every step of reassembly para_idx does not decrease, it advances
\* by exactly one for each paragraph produced with an original's style, it
\* never exceeds the number of original paragraphs, and no original
\* paragraph's style is used twice; a non-blank line that comes when the
\* original paragraphs are used up still becomes a paragraph, without
\* inherited style.
C24_ParaIdxAdvancesOncePerStyle ==
    [][ /\ pc' = "lines" => para_index' >= para_index
        /\ pc = "lines" =>
             para_index' - para_index = StyledCount(styled_from') - StyledCount(styled_from)
        /\ para_index' <= Len(doc)
        /\ Len(styled_from') = Len(corrected_doc')
        /\ \A a \in 1..Len(styled_from') :
             IF styled_from'[a] # 0
             THEN /\ corrected_doc'[a].style = doc[styled_from'[a]].style
                  /\ \A b \in 1..Len(styled_from') : b # a => styled_from'[b] # styled_from'[a]
             ELSE corrected_doc'[a].style = DefaultStyle
        /\ (pc = "lines" /\ pending_lines # <<>> /\ para_index = Len(doc)
              /\ Strip(Head(pending_lines)) # <<>>) =>
             /\ Len(corrected_doc') = Len(corrected_doc) + 1
             /\ styled_from'[Len(styled_from')] = 0
             /\ corrected_doc'[Len(corrected_doc')].runs =
                  apply_formatted_text_to_paragraph(Head(pending_lines))
      ]_vars

\* the line by line run gives what the call as a whole gives
C24_LineByLineIsTheCall ==
    pc = "returned" =>
        corrected_doc = create_corrected_document_from_chunks(doc, chunks, results).paras

\* two originals used up, a third line made a paragraph of its own
C24_Witness ==
    /\ pc = "returned"
    /\ Len(doc) = 2
    /\ para_index = 2
    /\ styled_from = <<1, 2, 0>>


\* the budget is handed to docx_to_chunks, or was already
ReachedChunker == pc \notin {"start", "estimate", "raised", "rejected", "cancelled"}

\* validate_chunk_size's rule for the model in use
MeetsValidationRule(size) == size > 1000 /\ 2 * size <= 3 * OptimalBudget

\* C25: every budget that reaches the chunker is greater than 1000 and at
\* most 1.5 times the optimal budget of the model in use, whether it came from
\* a words/chars value, from auto or from the default of 27500.
C25_ChunkerBudgetValid == ReachedChunker => MeetsValidationRule(chunk_size)

\* the budgets that were given as a value or as auto do meet the rule
C25_GivenBudgetValid ==
    (ReachedChunker /\ chunk_size_arg # None) => MeetsValidationRule(chunk_size)


\* docx_to_chunks has returned
ChunksMade == pc \in {"submitting", "collecting", "sequential", "save", "done", "chunked"}

\* no chunk is empty, there are no more chunks than paragraphs, and there is
\* a chunk as soon as there is a paragraph
ChunksNonEmptyAndBounded ==
    /\ \A i \in 1..Len(chunks) : chunks[i] # <<>>
    /\ Len(chunks) <= Len(doc)
    /\ Len(doc) >= 1 => Len(chunks) >= 1
    /\ doc = <<>> => chunks = <<>>

\* C26: no chunk is the empty string and there are never more chunks than
\* paragraphs; a document with at least one paragraph gives at least one
\* chunk, and a document without paragraphs gives zero chunks, zero
\* completion calls and an empty aggregated report.
C26_ChunksNonEmptyAndBounded ==
    /\ ChunksMade => ChunksNonEmptyAndBounded
    /\ doc = <<>> =>
         /\ calls = 0
         /\ \A i \in 1..Len(task) : task[i] = "none"
         /\ (mode = "report" /\ pc \in {"save", "done"}) => output = <<>>

\* the same of the chunks of every budget from -1 on
C26_ChunksOfAnyBudget == pc = "chunked" => ChunksNonEmptyAndBounded

\* a report run over a document without paragraphs, at its end
C26_Witness ==
    /\ pc = "done"
    /\ mode = "report"
    /\ doc = <<>>
    /\ chunks = <<>>
    /\ calls = 0
    /\ output = <<>>


\* the paragraph's line in a chunk is not blank
IsNonBlank(p) == Strip(ParagraphText(p)) # <<>>

\* the original paragraphs whose text the rebuilt paragraphs carry, in order
NonBlankParas == SelectSeq(doc, IsNonBlank)

\* C27: with completions that echo their chunks, every rebuilt paragraph has
\* the style of the original paragraph whose text it carries, also when blank
\* paragraphs stand between the non-blank ones of the original document.
C27_EchoKeepsStyles ==
    pc = "reassembled" =>
        /\ Len(corrected_doc) = Len(NonBlankParas)
        /\ \A k \in 1..Len(corrected_doc) : corrected_doc[k].style = NonBlankParas[k].style

\* the k-th rebuilt paragraph has the k-th original paragraph's style, which
\* is the style of its own text when no blank paragraph comes before it
C27_EchoStyleByPosition ==
    pc = "reassembled" =>
        /\ Len(corrected_doc) = Len(NonBlankParas)
        /\ \A k \in 1..Len(corrected_doc) :
             /\ corrected_doc[k].style = doc[k].style
             /\ (\A j \in 1..k : IsNonBlank(doc[j])) =>
                  corrected_doc[k].style = NonBlankParas[k].style

=============================================================================
